---- MODULE Spec2Model ----
(***************************************************************************)
(* The terminal Snake game of groovy-sky/go-snake.  The repository holds   *)
(* two variants of the same program: main.go (food stays until eaten) and  *)
(* a second main package (food with a visibility timer and a respawn       *)
(* delay).  Both are modelled; the variable `variant' says which of the    *)
(* two programs is running and never changes.                              *)
(*                                                                         *)
(* The grid and the food timers are scaled down (width, height,            *)
(* minFoodTime, maxFoodTime, foodRespawnTime below) so that wraparound,    *)
(* self-collision, food expiry and respawn all happen within a few ticks.  *)
(***************************************************************************)
EXTENDS Integers, Sequences, FiniteSets

\* ---- bounds of the model ------------------------------------------------
width == 4             \* 40 in the source
height == 2            \* 20 (main.go) and 15 (timed variant) in the source
minFoodTime == 2       \* 50 in the source
maxFoodTime == 4       \* 150 in the source
foodRespawnTime == 2   \* 20 in the source
MaxLen == 4            \* a game is followed up to a snake of this many segments
MaxFoodType == 1       \* rand.Intn(len(foodSymbols)) is drawn from 0 .. MaxFoodType
MaxFoodTypeTimed == 0  \* the same draw in the timed variant, whose timers add to the state
MaxEvents == 2         \* the input reader is followed for this many PollEvent calls

\* ---- program constants --------------------------------------------------
initialSize == 3
baseSpeed == 100
\* mutant of foodValues: the last food is worth 10
foodValuesLastTen == <<1, 3, 5, 10>>

foodValues == <<1, 3, 5, 7>>

Up == "Up"
Right == "Right"
Down == "Down"
Left == "Left"
Direction == {Up, Right, Down, Left}

Variants == {"plain", "timed"}

VARIABLES
  variant,             \* which of the two programs runs
  snake,               \* game.snake, head first
  food,                \* game.food
  foodType,            \* game.foodType, 0-based index into foodValues
  direction,           \* game.direction
  score,               \* game.score
  highScore,           \* game.highScore
  gameOver,            \* game.gameOver
  foodTimer,           \* game.foodTimer          (timed variant)
  foodVisible,         \* game.foodVisible        (timed variant)
  foodRespawnCounter,  \* game.foodRespawnCounter (timed variant)
  mainHighScore,       \* main's local highScore
  updateInterval,      \* interval of the running ticker, in milliseconds
  moved,               \* direction read by the last Update of this game while live, or NoMove
  readerPc,            \* the input goroutine: "poll" (in PollEvent) or "send" (in eventQueue <-)
  pending,             \* the event the input goroutine has read and not yet sent
  eventQueue,          \* the events held in the buffer of the channel eventQueue
  polled,              \* every event PollEvent has returned, in order
  received             \* every event main has received from eventQueue, in order

\* the game and the locals of main
gameVars == <<variant, snake, food, foodType, direction, score, highScore,
              gameOver, foodTimer, foodVisible, foodRespawnCounter,
              mainHighScore, updateInterval, moved>>

\* the input goroutine and its channel
chanVars == <<readerPc, pending, eventQueue, polled, received>>

vars == <<gameVars, chanVars>>

NoMove == "NoMove"

Point == [X : 0 .. width - 1, Y : 0 .. height - 1]

\* the Game struct as one value
Game == [snake |-> snake, food |-> food, foodType |-> foodType,
         direction |-> direction, score |-> score, highScore |-> highScore,
         gameOver |-> gameOver, foodTimer |-> foodTimer,
         foodVisible |-> foodVisible,
         foodRespawnCounter |-> foodRespawnCounter]

\* p is one of the points of body s (the range loops over g.snake)
OnSnake(s, p) == \E i \in DOMAIN s : s[i].X = p.X /\ s[i].Y = p.Y

\* the food types PlaceFood draws from
FoodTypes == 0 .. (IF variant = "timed" THEN MaxFoodTypeTimed ELSE MaxFoodType)

\* mutant of PlaceFood: the sampled position is taken without the collision loop
PlaceFoodAnywhere(g) ==
  { [g EXCEPT !.foodType = t,
              !.foodTimer = IF variant = "timed" THEN tm ELSE @,
              !.foodVisible = TRUE,
              !.food = p] :
      t \in FoodTypes,
      tm \in (IF variant = "timed" THEN minFoodTime .. maxFoodTime - 1 ELSE {0}),
      p \in Point }

\* PlaceFood: the games it can return.  The type, the lifetime and every
\* sampled position are random; the loop ends at the first sampled position
\* that is not on the snake, and never ends when there is none.
PlaceFood(g) ==
  { [g EXCEPT !.foodType = t,
              !.foodTimer = IF variant = "timed" THEN tm ELSE @,
              !.foodVisible = TRUE,
              !.food = p] :
      t \in FoodTypes,
      tm \in (IF variant = "timed" THEN minFoodTime .. maxFoodTime - 1 ELSE {0}),
      p \in {q \in Point : ~OnSnake(g.snake, q)} }

\* the snake NewGame builds
InitialSnake ==
  [i \in 1 .. initialSize |-> [X |-> (width \div 2) - (i - 1), Y |-> height \div 2]]

\* NewGame: the games it can return
NewGame ==
  PlaceFood([snake |-> InitialSnake, food |-> [X |-> 0, Y |-> 0],
             foodType |-> 0, direction |-> Right, score |-> 0,
             highScore |-> 0, gameOver |-> FALSE, foodTimer |-> 0,
             foodVisible |-> (variant = "plain"),
             foodRespawnCounter |-> 0])

\* mutant of FoodTimerPhase: the respawn test is < 0 instead of <= 0
FoodTimerPhaseLateRespawn(g) ==
  IF variant = "plain" THEN {g}
  ELSE IF g.foodVisible
    THEN IF g.foodTimer - 1 <= 0
           THEN {[g EXCEPT !.foodTimer = @ - 1, !.foodVisible = FALSE,
                           !.foodRespawnCounter = foodRespawnTime]}
           ELSE {[g EXCEPT !.foodTimer = @ - 1]}
    ELSE IF g.foodRespawnCounter - 1 < 0
           THEN PlaceFood([g EXCEPT !.foodRespawnCounter = @ - 1])
           ELSE {[g EXCEPT !.foodRespawnCounter = @ - 1]}

\* the food timer phase of Update (timed variant only)
FoodTimerPhase(g) ==
  IF variant = "plain" THEN {g}
  ELSE IF g.foodVisible
    THEN IF g.foodTimer - 1 <= 0
           THEN {[g EXCEPT !.foodTimer = @ - 1, !.foodVisible = FALSE,
                           !.foodRespawnCounter = foodRespawnTime]}
           ELSE {[g EXCEPT !.foodTimer = @ - 1]}
    ELSE IF g.foodRespawnCounter - 1 <= 0
           THEN PlaceFood([g EXCEPT !.foodRespawnCounter = @ - 1])
           ELSE {[g EXCEPT !.foodRespawnCounter = @ - 1]}

\* mutant of Step: the Left case has the sign of the Right case
StepLeftInverted(head, d) ==
  CASE d = Up    -> [X |-> head.X, Y |-> head.Y - 1]
    [] d = Right -> [X |-> head.X + 1, Y |-> head.Y]
    [] d = Down  -> [X |-> head.X, Y |-> head.Y + 1]
    [] d = Left  -> [X |-> head.X + 1, Y |-> head.Y]

\* the head one unit further in direction d, before wraparound
Step(head, d) ==
  CASE d = Up    -> [X |-> head.X, Y |-> head.Y - 1]
    [] d = Right -> [X |-> head.X + 1, Y |-> head.Y]
    [] d = Down  -> [X |-> head.X, Y |-> head.Y + 1]
    [] d = Left  -> [X |-> head.X - 1, Y |-> head.Y]

\* mutant of WrapAxis: a step past the low edge lands on 0
WrapAxisLowToZero(v, n) == IF v < 0 THEN 0 ELSE IF v >= n THEN 0 ELSE v

\* mutant of WrapAxis: the high edge is tested with > instead of >=
WrapAxisOffByOne(v, n) == IF v < 0 THEN n - 1 ELSE IF v > n THEN 0 ELSE v

\* wraparound of one coordinate v on an axis of size n
WrapAxis(v, n) == IF v < 0 THEN n - 1 ELSE IF v >= n THEN 0 ELSE v

Wrap(p) == [X |-> WrapAxis(p.X, width), Y |-> WrapAxis(p.Y, height)]

\* the candidate head of Update for game g
NewHead(g) == Wrap(Step(g.snake[1], g.direction))

\* mutant of FoodHit: the coordinates of the food are taken the wrong way round
FoodHitTransposed(g, newHead) ==
  g.foodVisible /\ newHead.X = g.food.Y /\ newHead.Y = g.food.X

\* the food check of Update
FoodHit(g, newHead) ==
  g.foodVisible /\ newHead.X = g.food.X /\ newHead.Y = g.food.Y

\* mutant of SelfCollision: the loop stops before the tail
SelfCollisionSkipsTail(g, newHead) ==
  \E i \in 1 .. Len(g.snake) - 1 :
    g.snake[i].X = newHead.X /\ g.snake[i].Y = newHead.Y

\* mutant of SelfCollision: only the head is compared
SelfCollisionHeadOnly(g, newHead) ==
  g.snake[1].X = newHead.X /\ g.snake[1].Y = newHead.Y

\* the self-collision loop of Update: newHead is compared with every point
\* of the body as it is before the move, the tail included
SelfCollision(g, newHead) ==
  \E i \in 1 .. Len(g.snake) :
    g.snake[i].X = newHead.X /\ g.snake[i].Y = newHead.Y

\* mutant of MoveSnake: the tail is never removed
MoveSnakeKeepsTail(g) ==
  LET newHead == NewHead(g) IN
  IF SelfCollision(g, newHead)
    THEN {[g EXCEPT !.gameOver = TRUE]}
    ELSE LET grown == <<newHead>> \o g.snake IN
         IF FoodHit(g, newHead)
           THEN LET s == g.score + foodValues[g.foodType + 1] IN
                PlaceFood([g EXCEPT !.snake = grown, !.score = s,
                                    !.highScore = IF s > @ THEN s ELSE @])
           ELSE {[g EXCEPT !.snake = grown]}

\* mutant of MoveSnake: the food type index is awarded instead of its value
MoveSnakeAwardsIndex(g) ==
  LET newHead == NewHead(g) IN
  IF SelfCollision(g, newHead)
    THEN {[g EXCEPT !.gameOver = TRUE]}
    ELSE LET grown == <<newHead>> \o g.snake IN
         IF FoodHit(g, newHead)
           THEN LET s == g.score + g.foodType + 1 IN
                PlaceFood([g EXCEPT !.snake = grown, !.score = s,
                                    !.highScore = IF s > @ THEN s ELSE @])
           ELSE {[g EXCEPT !.snake = SubSeq(grown, 1, Len(grown) - 1)]}

\* Update after the food timer phase: collision check, growth, food
MoveSnake(g) ==
  LET newHead == NewHead(g) IN
  IF SelfCollision(g, newHead)
    THEN {[g EXCEPT !.gameOver = TRUE]}
    ELSE LET grown == <<newHead>> \o g.snake IN
         IF FoodHit(g, newHead)
           THEN LET s == g.score + foodValues[g.foodType + 1] IN
                PlaceFood([g EXCEPT !.snake = grown, !.score = s,
                                    !.highScore = IF s > @ THEN s ELSE @])
           ELSE {[g EXCEPT !.snake = SubSeq(grown, 1, Len(grown) - 1)]}

\* mutant of Update: the food timer phase runs after the move
UpdateMovesFirst(g) ==
  IF g.gameOver THEN {g}
  ELSE UNION {FoodTimerPhase(m) : m \in MoveSnake(g)}

\* mutant of Update: the gameOver early return is missing
UpdateIgnoresGameOver(g) ==
  UNION {MoveSnake(m) : m \in FoodTimerPhase(g)}

\* Update: the games one call can leave
Update(g) ==
  IF g.gameOver THEN {g}
  ELSE UNION {MoveSnake(m) : m \in FoodTimerPhase(g)}

directionChanged(old, new) ==
  (old = Up \/ old = Down) # (new = Up \/ new = Down)

getUpdateInterval(dir) ==
  IF dir = Left \/ dir = Right THEN baseSpeed ELSE (baseSpeed * 18) \div 10

\* mutant of max: the comparison is turned round
maxTurned(a, b) == IF a < b THEN a ELSE b

\* mutant of max: the second argument is dropped
maxFirst(a, b) == a

max(a, b) == IF a > b THEN a ELSE b

\* the events PollEvent delivers
Events ==
  [Type : {"EventKey"},
   Key : {"KeyArrowUp", "KeyArrowRight", "KeyArrowDown", "KeyArrowLeft", "KeyEsc"},
   Ch : {""}]
  \cup [Type : {"EventKey"}, Key : {""}, Ch : {"q", "r", "x"}]
  \cup [Type : {"EventResize"}, Key : {""}, Ch : {""}]

\* no event: the input goroutine holds nothing
NoEvent == [Type |-> "None", Key |-> "", Ch |-> ""]

\* mutant of Steer: the Down case has lost its guard
SteerDownUnguarded(dir, key) ==
  CASE key = "KeyArrowUp"    -> IF dir # Down THEN Up ELSE dir
    [] key = "KeyArrowRight" -> IF dir # Left THEN Right ELSE dir
    [] key = "KeyArrowDown"  -> Down
    [] key = "KeyArrowLeft"  -> IF dir # Right THEN Left ELSE dir
    [] OTHER -> dir

\* the arrow-key switch of main
Steer(dir, key) ==
  CASE key = "KeyArrowUp"    -> IF dir # Down THEN Up ELSE dir
    [] key = "KeyArrowRight" -> IF dir # Left THEN Right ELSE dir
    [] key = "KeyArrowDown"  -> IF dir # Up THEN Down ELSE dir
    [] key = "KeyArrowLeft"  -> IF dir # Right THEN Left ELSE dir
    [] OTHER -> dir

SetGame(g) ==
  /\ snake' = g.snake
  /\ food' = g.food
  /\ foodType' = g.foodType
  /\ direction' = g.direction
  /\ score' = g.score
  /\ highScore' = g.highScore
  /\ gameOver' = g.gameOver
  /\ foodTimer' = g.foodTimer
  /\ foodVisible' = g.foodVisible
  /\ foodRespawnCounter' = g.foodRespawnCounter

Init ==
  /\ variant \in Variants
  /\ \E g \in NewGame :
       /\ snake = g.snake
       /\ food = g.food
       /\ foodType = g.foodType
       /\ direction = g.direction
       /\ score = g.score
       /\ highScore = g.highScore
       /\ gameOver = g.gameOver
       /\ foodTimer = g.foodTimer
       /\ foodVisible = g.foodVisible
       /\ foodRespawnCounter = g.foodRespawnCounter
  /\ mainHighScore = 0
  /\ updateInterval = baseSpeed
  /\ moved = NoMove
  /\ readerPc = "poll"
  /\ pending = NoEvent
  /\ eventQueue = <<>>
  /\ polled = <<>>
  /\ received = <<>>

\* case <-ticker.C: game.Update(); game.Draw()
Tick ==
  /\ \E g \in Update(Game) :
       /\ Len(g.snake) <= MaxLen
       /\ SetGame(g)
  /\ moved' = IF gameOver THEN moved ELSE direction
  /\ UNCHANGED <<variant, mainHighScore, updateInterval>>
  /\ UNCHANGED chanVars

\* mutant of IsRestart: the gameOver test is missing
IsRestartAnyTime(ev, over) == ev.Ch = "r"

\* the restart test of main: ev.Ch == 'r' && game.gameOver
IsRestart(ev, over) == ev.Ch = "r" /\ over

\* case ev := <-eventQueue.  On Esc and on 'q' main returns and the process
\* ends: the behaviour takes no further step.
HandleEvent(ev) ==
  IF ev.Type # "EventKey" \/ ev.Key = "KeyEsc"
    THEN UNCHANGED gameVars
  ELSE LET dir == Steer(direction, ev.Key) IN
       /\ updateInterval' = IF directionChanged(direction, dir)
                              THEN getUpdateInterval(dir)
                              ELSE updateInterval
       /\ IF ev.Ch = "q"
            THEN UNCHANGED gameVars
          ELSE IF IsRestart(ev, gameOver)
            THEN /\ mainHighScore' = max(mainHighScore, highScore)
                 /\ moved' = NoMove
                 /\ UNCHANGED variant
                 /\ \E g \in NewGame :
                      SetGame([g EXCEPT !.highScore = max(mainHighScore, highScore)])
          ELSE /\ direction' = dir
               /\ UNCHANGED <<variant, snake, food, foodType, score,
                              highScore, gameOver, foodTimer, foodVisible,
                              foodRespawnCounter, mainHighScore, moved>>

\* In Spec and SpecOneGame an event reaches main in one step; the input
\* goroutine and the channel that carry it are followed in SpecChan.
Next ==
  \/ Tick
  \/ \E ev \in Events : HandleEvent(ev) /\ UNCHANGED chanVars

Spec == Init /\ [][Next]_vars

\* One game played to its end: the ticker case without the MaxLen cut-off,
\* and every key event except the restart.
TickToTheEnd ==
  /\ \E g \in Update(Game) : SetGame(g)
  /\ moved' = IF gameOver THEN moved ELSE direction
  /\ UNCHANGED <<variant, mainHighScore, updateInterval>>
  /\ UNCHANGED chanVars

NextOneGame ==
  \/ TickToTheEnd
  \/ \E ev \in Events \ {[Type |-> "EventKey", Key |-> "", Ch |-> "r"]} :
       HandleEvent(ev) /\ UNCHANGED chanVars

SpecOneGame == Init /\ [][NextOneGame]_vars

\* mutant of ChanCap: the channel has a buffer of one event
ChanCapOne == 0 + 1

\* eventQueue := make(chan termbox.Event): the channel has no buffer
ChanCap == 0

\* go func() { for { eventQueue <- termbox.PollEvent() } }(): one step of the
\* input goroutine.  PollEvent returns any event; the send completes on its
\* own only when the buffer of the channel has room.
ReaderStep ==
  /\ IF readerPc = "poll"
       THEN /\ Len(polled) < MaxEvents
            /\ \E ev \in Events :
                 /\ pending' = ev
                 /\ polled' = Append(polled, ev)
            /\ readerPc' = "send"
            /\ UNCHANGED eventQueue
       ELSE /\ Len(eventQueue) < ChanCap
            /\ eventQueue' = Append(eventQueue, pending)
            /\ pending' = NoEvent
            /\ readerPc' = "poll"
            /\ UNCHANGED polled
  /\ UNCHANGED received
  /\ UNCHANGED gameVars

\* case ev := <-eventQueue: main takes the oldest buffered event, or, the
\* buffer being empty, the event of the send the input goroutine waits in,
\* and handles it.
MainReceive ==
  IF eventQueue # <<>>
    THEN /\ HandleEvent(Head(eventQueue))
         /\ received' = Append(received, Head(eventQueue))
         /\ eventQueue' = Tail(eventQueue)
         /\ UNCHANGED <<readerPc, pending, polled>>
    ELSE /\ readerPc = "send"
         /\ HandleEvent(pending)
         /\ received' = Append(received, pending)
         /\ pending' = NoEvent
         /\ readerPc' = "poll"
         /\ UNCHANGED <<eventQueue, polled>>

\* The input goroutine and main's receive case.  The ticker case leaves the
\* goroutine and the channel as they are (Tick) and is left out.
NextChan ==
  \/ ReaderStep
  \/ MainReceive

SpecChan == Init /\ [][NextChan]_vars

\* ---- helpers of the claims -----------------------------------------------
Opposite(d) ==
  CASE d = Up -> Down
    [] d = Down -> Up
    [] d = Left -> Right
    [] d = Right -> Left
    [] OTHER -> NoMove

KeyDirection(key) ==
  CASE key = "KeyArrowUp" -> Up
    [] key = "KeyArrowRight" -> Right
    [] key = "KeyArrowDown" -> Down
    [] key = "KeyArrowLeft" -> Left

ArrowEvents == {ev \in Events : ev.Key \in {"KeyArrowUp", "KeyArrowRight",
                                            "KeyArrowDown", "KeyArrowLeft"}}

RestartEvent == [Type |-> "EventKey", Key |-> "", Ch |-> "r"]

SamePoint(p, q) == p.X = q.X /\ p.Y = q.Y

Larger(a, b) == IF a >= b THEN a ELSE b

\* the head lands on food that is visible when Update looks for it
LandsOnFood(m) == m.foodVisible /\ SamePoint(NewHead(m), m.food)

\* ---- C1 -----------------------------------------------------------------
\* C1: every Update of a live game leaves the snake one segment longer if
\* food was visible when the head was moved and the new head landed on it,
\* and leaves the length unchanged in every other case.
C1_LengthGrowsOnlyOnFood ==
  ~gameOver =>
    \A m \in FoodTimerPhase(Game) :
      \A g \in MoveSnake(m) :
        Len(g.snake) = Len(snake) + (IF LandsOnFood(m) THEN 1 ELSE 0)

\* a live game that has grown before and whose next Update eats again
C1_Witness ==
  /\ ~gameOver
  /\ Len(snake) = initialSize + 1
  /\ score > 0
  /\ LandsOnFood(Game)

\* ---- C2 -----------------------------------------------------------------
\* C2: an Update of a live game sets gameOver exactly when the wrapped
\* candidate head is one of the points the body had before the call, the
\* tail included; then body and score are as before; otherwise gameOver
\* stays false.
C2_CollisionExact ==
  ~gameOver =>
    LET hit == \E i \in DOMAIN snake : SamePoint(snake[i], NewHead(Game)) IN
    \A g \in Update(Game) :
      /\ hit => g.gameOver /\ g.snake = snake /\ g.score = score
      /\ ~hit => ~g.gameOver

\* a game that ended by running into its own tail
C2_Witness ==
  /\ gameOver
  /\ Len(snake) > initialSize
  /\ direction = moved
  /\ SamePoint(NewHead(Game), snake[Len(snake)])

\* ---- C3 -----------------------------------------------------------------
\* C3: in a live game the direction the next Update reads is never the
\* opposite of the direction the snake moved in on the previous Update.
C3_NoReversalBetweenTicks ==
  (~gameOver /\ moved # NoMove) => direction # Opposite(moved)

\* ---- C4 -----------------------------------------------------------------
\* C4: an arrow-key event asking for the opposite of game.direction leaves
\* game.direction as it is; any other arrow-key event sets it to the
\* direction asked for.
C4_ReversalRejected ==
  [][\A ev \in ArrowEvents :
       HandleEvent(ev) =>
         direction' = (IF KeyDirection(ev.Key) = Opposite(direction)
                         THEN direction
                         ELSE KeyDirection(ev.Key))]_vars

\* the snake last moved Right and an Up request has been accepted since
C4_Witness == ~gameOver /\ moved = Right /\ direction = Up

\* ---- C5 -----------------------------------------------------------------
\* C5: every snake segment is inside the grid.
C5_SnakeInGrid ==
  \A i \in DOMAIN snake :
    /\ 0 <= snake[i].X /\ snake[i].X < width
    /\ 0 <= snake[i].Y /\ snake[i].Y < height

\* the head has just wrapped from the right edge to column 0
C5_Witness ==
  /\ moved = Right
  /\ snake[1].X = 0
  /\ snake[2].X = width - 1

\* ---- C6 -----------------------------------------------------------------
\* C6: the snake body never holds a point twice and never has fewer than
\* initialSize points.
C6_NoDuplicateSegment ==
  /\ Len(snake) >= initialSize
  /\ \A i, j \in DOMAIN snake : i # j => ~SamePoint(snake[i], snake[j])

\* a grown snake after a self-collision
C6_Witness == gameOver /\ Len(snake) > initialSize /\ moved # NoMove

\* ---- C7 -----------------------------------------------------------------
\* the food of game g is in the grid, off the body s, its type in the table
PlacedWell(s, g) ==
  /\ g.food.X \in 0 .. width - 1
  /\ g.food.Y \in 0 .. height - 1
  /\ \A i \in DOMAIN s : ~SamePoint(s[i], g.food)
  /\ g.foodType \in 0 .. Len(foodValues) - 1

\* C7: each PlaceFood call (in NewGame, on the timed respawn, after food is
\* eaten) leaves food in the grid, off the snake body as it is when the call
\* is made, and with a food type inside the table.
C7_FoodPlacedOffSnake ==
  /\ \A g \in NewGame : g.foodVisible /\ PlacedWell(InitialSnake, g)
  /\ ~gameOver =>
       \A m \in FoodTimerPhase(Game) :
         /\ (~foodVisible /\ m.foodVisible) => PlacedWell(snake, m)
         /\ \A g \in MoveSnake(m) :
              g.score # m.score => g.foodVisible /\ PlacedWell(g.snake, g)

\* food has been eaten and new food placed
C7_Witness ==
  /\ ~gameOver
  /\ score > 0
  /\ Len(snake) = initialSize + 1
  /\ foodVisible
  /\ moved # NoMove

\* ---- C8 -----------------------------------------------------------------
\* C8: game.highScore is at least game.score in every state, and no tick
\* and no key event lowers game.highScore.
C8_HighScoreBounds ==
  /\ [](highScore >= score)
  /\ [][highScore' >= highScore]_vars

\* a restarted game that carries a high score above its own score
C8_Witness == ~gameOver /\ highScore > score /\ score > 0

\* ---- C9 -----------------------------------------------------------------
\* C9: an Update whose new head lands on visible food raises score by the
\* value of that food's type, every other Update leaves score as it is, and
\* no step other than a restart lowers score.
C9_ScoreOnlyIncreases ==
  /\ [](~gameOver =>
          \A m \in FoodTimerPhase(Game) :
            \A g \in MoveSnake(m) :
              g.score = score + (IF LandsOnFood(m)
                                   THEN foodValues[m.foodType + 1]
                                   ELSE 0))
  /\ [](gameOver => \A g \in Update(Game) : g.score = score)
  /\ [][(gameOver /\ ~gameOver') \/ score' >= score]_vars

\* a game that has eaten one food of value 3
C9_Witness == score = 3 /\ Len(snake) = initialSize + 1 /\ ~gameOver

\* ---- C10 ----------------------------------------------------------------
\* C10: an 'r' key event handled while gameOver is true leaves a freshly
\* built game (the initial snake, direction Right, score 0, not over, food
\* off the snake) whose highScore is the maximum of the high score before
\* the restart and the score of the game that ended, hence at least the
\* high score before the restart.
C10_RestartCarriesHighScore ==
  [][(gameOver /\ HandleEvent(RestartEvent)) =>
       /\ snake' = InitialSnake
       /\ direction' = Right
       /\ score' = 0
       /\ ~gameOver'
       /\ foodVisible'
       /\ PlacedWell(InitialSnake, [food |-> food', foodType |-> foodType'])
       /\ highScore' = Larger(mainHighScore, score)
       /\ highScore' = Larger(highScore, score)
       /\ highScore' >= highScore]_vars

\* a fresh game after a restart, carrying the high score of the game before
C10_Witness ==
  /\ snake = InitialSnake
  /\ moved = NoMove
  /\ score = 0
  /\ highScore > 0
  /\ ~gameOver

\* ---- C11 ----------------------------------------------------------------
\* C11: an 'r' key event handled while gameOver is false changes nothing:
\* snake, direction, food, score, highScore and gameOver stay as they are.
C11_RestartIgnoredWhileLive ==
  [][(~gameOver /\ HandleEvent(RestartEvent)) =>
       UNCHANGED <<snake, direction, food, foodType, score, highScore,
                   gameOver, foodTimer, foodVisible, foodRespawnCounter,
                   mainHighScore>>]_vars

\* a live game that has moved, scored and turned: an 'r' would be noticed
C11_Witness ==
  /\ ~gameOver
  /\ score > 0
  /\ direction # Right
  /\ snake # InitialSnake

\* ---- C12 ----------------------------------------------------------------
\* C12: once gameOver is true, Update returns the game exactly as it got it
\* (snake, direction, food, type, score, highScore, gameOver and the three
\* food timer fields), however often it is called.
C12_UpdateNoOpWhenOver ==
  gameOver =>
    /\ Update(Game) = {Game}
    /\ \A g \in Update(Game) : Update(g) = {Game}

\* a timed game that ended while its food was still counting down
C12_Witness ==
  /\ gameOver
  /\ variant = "timed"
  /\ foodVisible
  /\ foodTimer > 1

\* ---- C13 ----------------------------------------------------------------
\* the unit step of direction d along each axis
DeltaX(d) == IF d = Right THEN 1 ELSE IF d = Left THEN -1 ELSE 0

DeltaY(d) == IF d = Down THEN 1 ELSE IF d = Up THEN -1 ELSE 0

\* head h one unit further in direction d on the torus
TorusStep(h, d) ==
  [X |-> (h.X + DeltaX(d) + width) % width,
   Y |-> (h.Y + DeltaY(d) + height) % height]

\* C13: a live Update that does not collide puts the new head one unit from
\* the old head in the active direction, each axis taken modulo its
\* dimension; and an Update sets gameOver only when that cell is on the
\* body, never merely because the head is at an edge.
C13_HeadWrapsModulo ==
  ~gameOver =>
    LET target == TorusStep(snake[1], direction) IN
    \A g \in Update(Game) :
      /\ ~g.gameOver => SamePoint(g.snake[1], target)
      /\ g.gameOver => \E i \in DOMAIN snake : SamePoint(snake[i], target)

\* the head has just stepped past the left edge and is live in the last column
C13_Witness ==
  /\ ~gameOver
  /\ moved = Left
  /\ snake[1].X = width - 1
  /\ snake[2].X = 0

\* ---- C14 ----------------------------------------------------------------
\* C14: once gameOver is true, every tick and every key event other than
\* 'r' leaves gameOver true and snake and score as they are; only the
\* handling of an 'r' key event makes gameOver false again.
C14_GameOverIsTerminal ==
  [][(gameOver /\ (Tick \/ \E ev \in Events \ {RestartEvent} : HandleEvent(ev))) =>
       gameOver' /\ snake' = snake /\ score' = score]_vars

\* a finished game in which an arrow key has been handled after the end
C14_Witness ==
  /\ gameOver
  /\ score > 0
  /\ moved # NoMove
  /\ direction # moved

\* ---- C15 ----------------------------------------------------------------
\* some grid cell is not on body s
HasFreeCell(s) ==
  \E q \in Point : \A i \in DOMAIN s : ~SamePoint(s[i], q)

\* C15: whenever Update of a live game calls PlaceFood (on the timed respawn
\* with the body as it is, after eating with the grown body), some grid cell
\* is off the snake, so the sampling loop can end and the tick completes.
C15_PlaceFoodCanExit ==
  ~gameOver =>
    /\ (variant = "timed" /\ ~foodVisible /\ foodRespawnCounter <= 1)
         => HasFreeCell(snake)
    /\ \A m \in FoodTimerPhase(Game) :
         (LandsOnFood(m) /\ \A i \in DOMAIN m.snake : ~SamePoint(m.snake[i], NewHead(m)))
           => HasFreeCell(<<NewHead(m)>> \o m.snake)
    /\ Update(Game) # {}

\* ---- C16 ----------------------------------------------------------------
\* C16: the ticker runs at the slower vertical interval exactly when
\* game.direction is Up or Down, and at the base interval exactly when it is
\* Left or Right.
C16_IntervalMatchesAxis ==
  /\ (direction \in {Up, Down}) <=> (updateInterval > baseSpeed)
  /\ (direction \in {Left, Right}) <=> (updateInterval = baseSpeed)

\* ---- C17 ----------------------------------------------------------------
\* a lifetime PlaceFood may draw
Lifetime == minFoodTime .. maxFoodTime - 1

\* C17 (timed variant): food is placed with a lifetime in
\* [minFoodTime, maxFoodTime); each live tick counts visible food down by one
\* and hides it on the tick the count reaches zero, starting a respawn count
\* of foodRespawnTime; each live tick counts hidden food down by one and
\* places new visible food on the tick that count reaches zero, which is the
\* foodRespawnTime-th tick after the hiding.  The counts stay within
\* 1 .. maxFoodTime - 1 and 1 .. foodRespawnTime between ticks, so hidden
\* food is back after at most foodRespawnTime live ticks.
C17_FoodExpiresAndRespawns ==
  variant = "timed" =>
    /\ foodVisible => foodTimer \in 1 .. maxFoodTime - 1
    /\ ~foodVisible => foodRespawnCounter \in 1 .. foodRespawnTime
    /\ \A g \in NewGame : g.foodVisible /\ g.foodTimer \in Lifetime
    /\ ~gameOver =>
         /\ FoodTimerPhase(Game) # {}
         /\ \A m \in FoodTimerPhase(Game) :
              /\ foodVisible =>
                   /\ m.foodVisible <=> foodTimer > 1
                   /\ m.foodVisible => m.foodTimer = foodTimer - 1
                   /\ ~m.foodVisible => m.foodRespawnCounter = foodRespawnTime
              /\ ~foodVisible =>
                   /\ m.foodVisible <=> foodRespawnCounter = 1
                   /\ m.foodVisible => m.foodTimer \in Lifetime
                   /\ ~m.foodVisible =>
                        m.foodRespawnCounter = foodRespawnCounter - 1
              /\ \A g \in MoveSnake(m) :
                   g.score # m.score => g.foodVisible /\ g.foodTimer \in Lifetime

\* hidden food one live tick before it is placed again
C17_Witness ==
  /\ variant = "timed"
  /\ ~gameOver
  /\ ~foodVisible
  /\ foodRespawnCounter = 1
  /\ moved # NoMove

\* ---- C18 ----------------------------------------------------------------
\* the cell the head of the live game moves to is off the body
MoveIsFree ==
  \A i \in DOMAIN snake : ~SamePoint(snake[i], TorusStep(snake[1], direction))

\* C18 (timed variant): Update runs the food timer phase before the move.
\* Food whose count reaches zero in a tick is hidden in that tick and is not
\* eaten even if the new head lands on its cell: no score, same length.
\* Food placed by the timer phase of a tick can be eaten by the move of the
\* same tick.
C18_TimerPhaseBeforeMove ==
  (variant = "timed" /\ ~gameOver /\ MoveIsFree) =>
    /\ (foodVisible /\ foodTimer = 1
          /\ SamePoint(food, TorusStep(snake[1], direction)))
         => \A g \in Update(Game) :
              /\ g.score = score
              /\ Len(g.snake) = Len(snake)
              /\ SamePoint(g.snake[1], food)
              /\ ~g.foodVisible
    /\ (~foodVisible /\ foodRespawnCounter = 1)
         => \E g \in Update(Game) :
              /\ g.score > score
              /\ Len(g.snake) = Len(snake) + 1
              /\ g.foodVisible

\* the head stands on the cell of food that was hidden in the very tick
\* that moved the head there, and nothing was scored
C18_Witness ==
  /\ variant = "timed"
  /\ ~gameOver
  /\ ~foodVisible
  /\ foodRespawnCounter = foodRespawnTime
  /\ SamePoint(snake[1], food)
  /\ score = 0

\* ---- C19 ----------------------------------------------------------------
\* C19: handling an arrow-key event changes at most game.direction and the
\* ticker interval: snake, food, score, highScore and gameOver stay as they
\* are.  No key event but the restart changes the snake, and a tick that
\* changes it moves the head one cell in the direction held at that tick,
\* every other segment taking the place of the one before it.
C19_TurnTakesEffectOnTick ==
  /\ \A ev \in ArrowEvents :
       ~ENABLED (/\ HandleEvent(ev)
                 /\ <<snake, food, foodType, score, highScore, gameOver,
                      foodTimer, foodVisible, foodRespawnCounter>>' #
                    <<snake, food, foodType, score, highScore, gameOver,
                      foodTimer, foodVisible, foodRespawnCounter>>)
  /\ \A ev \in Events \ {RestartEvent} :
       ~ENABLED (HandleEvent(ev) /\ snake' # snake)
  /\ \A g \in Update(Game) :
       g.snake # snake =>
         /\ SamePoint(g.snake[1], TorusStep(snake[1], direction))
         /\ \A i \in 2 .. Len(g.snake) : g.snake[i] = snake[i - 1]

\* a Left request is pending after a vertical move: the snake is still
\* where that move left it
C19_Witness ==
  /\ ~gameOver
  /\ moved = Down
  /\ direction = Left
  /\ snake[1].X = snake[2].X

\* ---- C20 ----------------------------------------------------------------
\* the events read and not yet received, oldest first
InFlight == eventQueue \o (IF readerPc = "send" THEN <<pending>> ELSE <<>>)

\* C20 as stated: the input task that has read an event can always hand it
\* off without waiting for main to receive it.
C20_HandoffNeverWaits == readerPc = "send" => ENABLED ReaderStep

\* C20: the channel has no buffer.  The input task that has read an event
\* waits in the send until main receives that event, so at most one event is
\* read and not yet received; main receives the events in the order they
\* were read, none lost and none twice.
C20_HandoffIsRendezvous ==
  /\ received \o InFlight = polled
  /\ Len(InFlight) <= 1
  /\ readerPc = "send" => ~ENABLED ReaderStep

\* two different events were read and received, and the input task is back
\* in PollEvent
C20_Witness ==
  /\ Len(received) = 2
  /\ received[1] # received[2]
  /\ received = polled
  /\ readerPc = "poll"

\* ---- C21 ----------------------------------------------------------------
\* food that is visible lies on none of the segments of body s
FoodOffSnake(s, f, visible) ==
  visible => \A i \in DOMAIN s : ~SamePoint(s[i], f)

\* C21: between events (after NewGame, after each whole Update, after each
\* key event) visible food lies on no segment of the snake, and every Update
\* of a live game leaves it so: a head that lands on visible food consumes
\* it, and the food is placed anew off the grown snake in that same Update.
C21_VisibleFoodOffSnake ==
  /\ FoodOffSnake(snake, food, foodVisible)
  /\ \A g \in Update(Game) : FoodOffSnake(g.snake, g.food, g.foodVisible)
  /\ ~gameOver =>
       \A m \in FoodTimerPhase(Game) :
         LandsOnFood(m) =>
           \A g \in MoveSnake(m) :
             /\ SamePoint(g.snake[1], m.food)
             /\ g.foodVisible
             /\ ~SamePoint(g.food, m.food)

\* the game has eaten, and the food placed since then is the cell the head
\* moves to on the next tick
C21_Witness ==
  /\ ~gameOver
  /\ Len(snake) > initialSize
  /\ foodVisible
  /\ SamePoint(food, TorusStep(snake[1], direction))

\* ---- C22 ----------------------------------------------------------------
\* the foods eaten by a game whose body is s
Eaten(s) == Len(s) - initialSize

\* body s and score sc are tied: every food eaten was worth 1 to 7
ScoreTied(s, sc) ==
  /\ Eaten(s) <= sc
  /\ sc <= 7 * Eaten(s)
  /\ (sc = 0) <=> (Len(s) = initialSize)

\* C22: in every state the score of the current game lies between n and
\* 7 * n, n being the length of the snake less initialSize, and is 0 exactly
\* while the snake has length initialSize; every Update keeps it so, whatever
\* the type of the food on the grid, and NewGame starts with both at their
\* least.
C22_ScoreTiedToLength ==
  /\ ScoreTied(snake, score)
  /\ \A t \in 0 .. Len(foodValues) - 1 :
       \A g \in Update([Game EXCEPT !.foodType = t]) :
         ScoreTied(g.snake, g.score)
  /\ \A g \in NewGame : Len(g.snake) = initialSize /\ g.score = 0

\* a second game that has eaten one food, worth less than what the game
\* before it scored
C22_Witness ==
  /\ mainHighScore > 0
  /\ Len(snake) = initialSize + 1
  /\ score > 0
  /\ score < highScore
====
